---- MODULE Spec2Model ----
(***************************************************************************)
(* Model of excel_tool.py: one run of the script (__main__), that is       *)
(* ExcelManipulationTool.__init__ (configuration load), process_parameters,*)
(* the dispatch on the run status, split_sheet (open, read, sort, one      *)
(* write and one post-processing pass per distinct value) and the final    *)
(* summary.  A second specification, SanSpec, applies the file-name        *)
(* sanitisation of split_sheet to every string of a bounded alphabet.      *)
(***************************************************************************)
EXTENDS Integers, Sequences, FiniteSets, TLC

VARIABLES pc, requestStatus, configFailed, excel_file, command, split_column,
          log, dirCreated, loaded, columns, table, df, agent_names, idx,
          written, partitions, splitRan, isfile, summary,
          san_in, san_out, san_out2, san_pc,
          w_sheet, w_col, w_width, w_pc

vars == <<pc, requestStatus, configFailed, excel_file, command, split_column,
          log, dirCreated, loaded, columns, table, df, agent_names, idx,
          written, partitions, splitRan, isfile, summary,
          san_in, san_out, san_out2, san_pc,
          w_sheet, w_col, w_width, w_pc>>

runVars == <<pc, requestStatus, configFailed, excel_file, command, split_column,
             log, dirCreated, loaded, columns, table, df, agent_names, idx,
             written, partitions, splitRan, isfile, summary>>

sanVars == <<san_in, san_out, san_out2, san_pc>>

widthVars == <<w_sheet, w_col, w_width, w_pc>>

(* ----------------------------- bounds ---------------------------------- *)
\* largest number of data rows of the first sheet
MaxRows == 3
\* longest string handed to the sanitisation in SanSpec
MaxStrLen == 5
\* largest number of data cells of a column in WidthSpec
MaxCells == 2

(* --------------------------- characters -------------------------------- *)
\* characters that occur in split values; strings are sequences of them
Alphabet == {"a", "b", "_", "-", " "}

\* the class [A-Za-z0-9_] of the regular expression
IsWordChar(c) == c \in {"a", "b", "n", "_"}

\* code points, for the natural ordering of strings
Code(c) == CASE c = " " -> 32 [] c = "-" -> 45 [] c = "_" -> 95
             [] c = "a" -> 97 [] c = "b" -> 98 [] c = "n" -> 110
             [] OTHER -> 0

\* the missing value of a cell (float nan)
NaN == <<"NaN">>

\* str(agent): a string is itself, the missing value prints as nan
Str(v) == IF v = NaN THEN <<"n", "a", "n">> ELSE v

(* ------------------------ sanitisation --------------------------------- *)
\* re.sub(r'[^A-Za-z0-9_]', '_', s)
ReSub(s) == [i \in 1..Len(s) |-> IF IsWordChar(s[i]) THEN s[i] ELSE "_"]

\* s.replace('__', '_'): one left-to-right pass over non-overlapping matches
RECURSIVE Replace(_)
Replace(s) ==
    IF s = <<>> THEN <<>>
    ELSE IF Len(s) >= 2 /\ s[1] = "_" /\ s[2] = "_"
         THEN <<"_">> \o Replace(SubSeq(s, 3, Len(s)))
         ELSE <<s[1]>> \o Replace(Tail(s))

RECURSIVE LStrip(_)
LStrip(s) == IF s # <<>> /\ s[1] = "_" THEN LStrip(Tail(s)) ELSE s

RECURSIVE RStrip(_)
RStrip(s) == IF s # <<>> /\ s[Len(s)] = "_"
             THEN RStrip(SubSeq(s, 1, Len(s) - 1)) ELSE s

\* s.strip('_')
Strip(s) == RStrip(LStrip(s))

\* clean_agent, from the string form of the value
Sanitize(s) == Strip(Replace(ReSub(s)))

clean_agent(agent) == Sanitize(Str(agent))

\* the output file of a partition: the stem of the source and the clean name
output_file(file, agent) == <<file, clean_agent(agent)>>

(* ----------------------- ordering and grouping ------------------------- *)
\* natural ordering of strings: lexicographic by code point
RECURSIVE StrLess(_, _)
StrLess(a, b) ==
    IF b = <<>> THEN FALSE
    ELSE IF a = <<>> THEN TRUE
    ELSE IF Code(a[1]) # Code(b[1]) THEN Code(a[1]) < Code(b[1])
    ELSE StrLess(Tail(a), Tail(b))

\* order of sort_values(ascending=True): missing values are placed last
KeyLess(a, b) == IF a = NaN THEN FALSE
                 ELSE IF b = NaN THEN TRUE
                 ELSE StrLess(a, b)

\* df[col] == agent, element by element: a missing value equals nothing
KeyEq(a, b) == a # NaN /\ b # NaN /\ a = b

Perms(n) == {p \in [1..n -> 1..n] : \A i, j \in 1..n : i # j => p[i] # p[j]}

\* the sort left out: the frame keeps the source order
sort_valuesSkipped(keys) == {[i \in 1..Len(keys) |-> i]}

\* df.sort_values(by=[col], ascending=True) with the default kind
\* ('quicksort', which is not a stable sort): every ordering of the row
\* indices that is ascending by key is a possible result
sort_values(keys) ==
    {p \in Perms(Len(keys)) :
        \A i, j \in 1..Len(keys) : i < j => ~KeyLess(keys[p[j]], keys[p[i]])}

\* the sheet read without a header line: the column name is a value too
KeysOfWithHeader(frame, keys) ==
    <<<<"a">>>> \o [i \in 1..Len(frame) |-> keys[frame[i]]]

\* df[col]: the split column of the frame, in its row order
KeysOf(frame, keys) == [i \in 1..Len(frame) |-> keys[frame[i]]]

\* Series.unique(): distinct values in order of first appearance; all
\* missing values count as one value
RECURSIVE unique(_)
unique(s) ==
    IF s = <<>> THEN <<>>
    ELSE LET r == unique(SubSeq(s, 1, Len(s) - 1))
             x == s[Len(s)]
         IN IF \E i \in 1..Len(r) : r[i] = x THEN r ELSE Append(r, x)

\* df[df[col] == agent]: the rows of the frame whose key equals the value
RECURSIVE Select(_, _, _)
Select(frame, keys, agent) ==
    IF frame = <<>> THEN <<>>
    ELSE IF KeyEq(keys[frame[1]], agent)
         THEN <<frame[1]>> \o Select(Tail(frame), keys, agent)
         ELSE Select(Tail(frame), keys, agent)

(* ------------------------------ status --------------------------------- *)
setStatus(status) == IF status \notin BOOLEAN THEN FALSE ELSE status

getStatus(rs) == IF rs \notin BOOLEAN THEN FALSE ELSE rs

\* the status set from the outcome of each write, good or bad
StatusAfterWriteReset(cur, ok) == IF ok THEN setStatus(TRUE) ELSE setStatus(FALSE)

\* the run status after the try/except around the write of one partition
StatusAfterWrite(cur, ok) == IF ok THEN cur ELSE setStatus(FALSE)

\* the existence test left out
FileMissingNever(exists) == FALSE

\* the test that ends split_sheet when the source is not a file
FileMissing(exists) == ~exists

\* the column test left out
ColumnMissingNever(col, cols) == FALSE

\* the test that ends split_sheet when the split column is absent
ColumnMissing(col, cols) == \A i \in 1..Len(cols) : cols[i] # col

\* the split operation entered whatever the status
MainRunsSplitAlways(rs, cmd) == cmd = "split"

\* the guard of __main__ around the split operation
MainRunsSplit(rs, cmd) == getStatus(rs) /\ cmd = "split"

(* ------------------------------- log ----------------------------------- *)
Info(m, r) == [level |-> "INFO", msg |-> m, ref |-> r]
Error(m, r) == [level |-> "ERROR", msg |-> m, ref |-> r]

(* ----------------------------- inputs ---------------------------------- *)
ConfigOutcomes == {"ok", "FileNotFoundError", "YAMLError", "IOError", "Exception"}
ExcelFiles == {"book.xlsx"}
SplitColumns == {"Region", "Team"}
SheetColumns == {<<"Region", "Amount">>}
KeyValues == {<<"a">>, <<"b", "-">>, <<"b", " ">>, NaN}
Tables == UNION {[1..n -> KeyValues] : n \in 0..MaxRows}
WriteOutcomes == {"ok", "open_error", "write_error"}

Prefixes(s) == {SubSeq(s, 1, k) : k \in 0..Len(s)}

(* ------------------------------ Init ----------------------------------- *)
RunInit ==
    /\ pc = "start"
    /\ requestStatus = TRUE
    /\ configFailed = FALSE
    /\ excel_file = ""
    /\ command = ""
    /\ split_column = ""
    /\ log = <<>>
    /\ dirCreated = FALSE
    /\ loaded = FALSE
    /\ columns = <<>>
    /\ table = <<>>
    /\ df = <<>>
    /\ agent_names = <<>>
    /\ idx = 0
    /\ written = <<>>
    /\ partitions = <<>>
    /\ splitRan = FALSE
    /\ isfile = "unknown"
    /\ summary = "none"

SanIdle ==
    /\ san_in = <<>>
    /\ san_out = <<>>
    /\ san_out2 = <<>>
    /\ san_pc = "idle"

WidthIdle ==
    /\ w_sheet = <<>>
    /\ w_col = 0
    /\ w_width = <<>>
    /\ w_pc = "idle"

Init == RunInit /\ SanIdle /\ WidthIdle

(* ------------------------ __init__ and __main__ ------------------------ *)
\* ExcelManipulationTool.__init__: the configuration load
ConfigLoad ==
    /\ pc = "start"
    /\ \E outcome \in ConfigOutcomes :
          /\ configFailed' = (outcome # "ok")
          /\ requestStatus' = IF outcome = "ok" THEN requestStatus
                              ELSE setStatus(FALSE)
          /\ log' = log \o <<Info("Reading configuration file", "")>>
                        \o (IF outcome = "ok" THEN <<>>
                            ELSE <<Error(outcome, "config"), Error("exception", "config")>>)
    /\ pc' = "params"
    /\ UNCHANGED <<excel_file, command, split_column, dirCreated, loaded,
                   columns, table, df, agent_names, idx, written, partitions,
                   splitRan, summary>>
    /\ UNCHANGED isfile
    /\ UNCHANGED sanVars
    /\ UNCHANGED widthVars

\* process_parameters with a command line argparse accepts
ProcessParameters ==
    /\ pc = "params"
    /\ \E f \in ExcelFiles, c \in SplitColumns :
          /\ excel_file' = f
          /\ split_column' = c
    /\ command' = "split"
    /\ log' = Append(log, Info("Processing command line parameters", ""))
    /\ pc' = "main"
    /\ UNCHANGED <<requestStatus, configFailed, dirCreated, loaded, columns,
                   table, df, agent_names, idx, written, partitions, splitRan,
                   summary>>
    /\ UNCHANGED isfile
    /\ UNCHANGED sanVars
    /\ UNCHANGED widthVars

\* process_parameters with no or wrong arguments: usage and sys.exit
ParametersExit ==
    /\ pc = "params"
    /\ log' = Append(log, Info("Processing command line parameters", ""))
    /\ pc' = "exited"
    /\ UNCHANGED <<requestStatus, configFailed, excel_file, command,
                   split_column, dirCreated, loaded, columns, table, df,
                   agent_names, idx, written, partitions, splitRan, summary>>
    /\ UNCHANGED isfile
    /\ UNCHANGED sanVars
    /\ UNCHANGED widthVars

\* __main__: the split operation is entered only when the status is good
MainDispatch ==
    /\ pc = "main"
    /\ IF MainRunsSplit(requestStatus, command)
       THEN /\ pc' = "split"
            /\ log' = log \o <<Info("Starting Excel Manipulation Tool script", ""),
                               Info("Excel file to manipulate", excel_file)>>
       ELSE /\ pc' = "summary"
            /\ log' = IF getStatus(requestStatus)
                      THEN log \o <<Info("Starting Excel Manipulation Tool script", ""),
                                    Info("Excel file to manipulate", excel_file)>>
                      ELSE log
    /\ UNCHANGED <<requestStatus, configFailed, excel_file, command,
                   split_column, dirCreated, loaded, columns, table, df,
                   agent_names, idx, written, partitions, splitRan, summary>>
    /\ UNCHANGED isfile
    /\ UNCHANGED sanVars
    /\ UNCHANGED widthVars

\* __main__: the final summary
Summary ==
    /\ pc = "summary"
    /\ IF getStatus(requestStatus)
       THEN /\ summary' = "success"
            /\ log' = log \o <<Info("Script Finished!", ""),
                               Info("All tasks completed successfully.", "")>>
       ELSE /\ summary' = "failed"
            /\ log' = log \o <<Error("Script encountered errors", ""),
                               Error("One or more tasks failed", "")>>
    /\ pc' = "done"
    /\ UNCHANGED <<requestStatus, configFailed, excel_file, command,
                   split_column, dirCreated, loaded, columns, table, df,
                   agent_names, idx, written, partitions, splitRan>>
    /\ UNCHANGED isfile
    /\ UNCHANGED sanVars
    /\ UNCHANGED widthVars

(* ----------------------------- split_sheet ----------------------------- *)
\* the source path is not an existing file: one error, status failed, return
SplitFileMissing ==
    /\ pc = "split"
    /\ \E exists \in BOOLEAN :
          /\ FileMissing(exists)
          /\ isfile' = IF exists THEN "yes" ELSE "no"
          /\ log' = log \o <<Info("Splitting Excel file", excel_file),
                             Error("Excel file does not exist", excel_file)>>
    /\ requestStatus' = setStatus(FALSE)
    /\ splitRan' = TRUE
    /\ pc' = "summary"
    /\ UNCHANGED <<configFailed, excel_file, command, split_column, dirCreated,
                   loaded, columns, table, df, agent_names, idx, written,
                   partitions, summary>>
    /\ UNCHANGED sanVars
    /\ UNCHANGED widthVars

\* pd.ExcelFile raises: the file is absent or is no workbook
SplitOpenError ==
    /\ pc = "split"
    /\ \E exists \in BOOLEAN :
          /\ ~FileMissing(exists)
          /\ isfile' = IF exists THEN "yes" ELSE "no"
          /\ log' = log \o <<Info("Splitting Excel file", excel_file),
                             Error("Error reading Excel file", excel_file),
                             Error("exception", IF exists THEN "" ELSE excel_file)>>
    /\ requestStatus' = setStatus(FALSE)
    /\ splitRan' = TRUE
    /\ pc' = "summary"
    /\ UNCHANGED <<configFailed, excel_file, command, split_column, dirCreated,
                   loaded, columns, table, df, agent_names, idx, written,
                   partitions, summary>>
    /\ UNCHANGED sanVars
    /\ UNCHANGED widthVars

\* the workbook opens and mkdir of the output directory raises: the
\* exception is not caught and ends the script
SplitMkdirError ==
    /\ pc = "split"
    /\ \E exists \in BOOLEAN : exists /\ ~FileMissing(exists)
    /\ isfile' = "yes"
    /\ log' = Append(log, Info("Splitting Excel file", excel_file))
    /\ splitRan' = TRUE
    /\ pc' = "crashed"
    /\ UNCHANGED <<requestStatus, configFailed, excel_file, command,
                   split_column, dirCreated, loaded, columns, table, df,
                   agent_names, idx, written, partitions, summary>>
    /\ UNCHANGED sanVars
    /\ UNCHANGED widthVars

\* the output directory is made and reading the first sheet raises
SplitReadError ==
    /\ pc = "split"
    /\ \E exists \in BOOLEAN : exists /\ ~FileMissing(exists)
    /\ isfile' = "yes"
    /\ dirCreated' = TRUE
    /\ log' = log \o <<Info("Splitting Excel file", excel_file),
                       Info("Excel file contains the following sheets", ""),
                       Error("Error reading first sheet of Excel file", excel_file),
                       Error("exception", "")>>
    /\ requestStatus' = setStatus(FALSE)
    /\ splitRan' = TRUE
    /\ pc' = "summary"
    /\ UNCHANGED <<configFailed, excel_file, command, split_column, loaded,
                   columns, table, df, agent_names, idx, written, partitions,
                   summary>>
    /\ UNCHANGED sanVars
    /\ UNCHANGED widthVars

\* the first sheet is read; either the split column is absent (error,
\* status failed, return) or the rows are sorted and the distinct values
\* of the split column are taken
SplitLoad ==
    /\ pc = "split"
    /\ \E exists \in BOOLEAN : exists /\ ~FileMissing(exists)
    /\ isfile' = "yes"
    /\ dirCreated' = TRUE
    /\ loaded' = TRUE
    /\ splitRan' = TRUE
    /\ \E cols \in SheetColumns, t \in Tables :
          /\ columns' = cols
          /\ table' = t
          /\ IF ColumnMissing(split_column, cols)
             THEN /\ log' = log \o <<Info("Splitting Excel file", excel_file),
                                     Info("Excel file contains the following sheets", ""),
                                     Error("Excel sheet does not contain column", split_column)>>
                  /\ requestStatus' = setStatus(FALSE)
                  /\ pc' = "summary"
                  /\ UNCHANGED <<df, agent_names, idx>>
             ELSE /\ df' \in sort_values(t)
                  /\ agent_names' = unique(KeysOf(df', t))
                  /\ log' = log \o <<Info("Splitting Excel file", excel_file),
                                     Info("Excel file contains the following sheets", ""),
                                     Info("Found unique values to split on", split_column)>>
                  /\ idx' = 1
                  /\ pc' = IF agent_names' = <<>> THEN "summary" ELSE "write"
                  /\ UNCHANGED requestStatus
    /\ UNCHANGED <<configFailed, excel_file, command, split_column, written,
                   partitions, summary>>
    /\ UNCHANGED sanVars
    /\ UNCHANGED widthVars

\* one pass of the loop up to the end of the try/except: select the rows
\* of the value, derive the file name, write header and rows
WritePartition ==
    /\ pc = "write"
    /\ LET agent == agent_names[idx]
           agent_df == Select(df, table, agent)
           f == output_file(excel_file, agent)
       IN \E outcome \in WriteOutcomes :
             /\ CASE outcome = "ok" ->
                       /\ written' = (f :> agent_df) @@ written
                       /\ partitions' = Append(partitions,
                              [agent |-> agent, file |-> f, rows |-> agent_df, ok |-> TRUE])
                       /\ log' = Append(log, Info("Wrote records to file", "output_file"))
                  [] outcome = "open_error" ->
                       \* the file could not be opened for writing: it is untouched
                       /\ written' = written
                       /\ partitions' = Append(partitions,
                              [agent |-> agent, file |-> f, rows |-> <<>>, ok |-> FALSE])
                       /\ log' = log \o <<Error("Error writing Excel file", "output_file"),
                                          Error("exception", "")>>
                  [] outcome = "write_error" ->
                       \* to_excel raised; leaving the with block saves what
                       \* had been written to the workbook so far
                       /\ \E part \in Prefixes(agent_df) :
                             /\ written' = (f :> part) @@ written
                             /\ partitions' = Append(partitions,
                                    [agent |-> agent, file |-> f, rows |-> part, ok |-> FALSE])
                       /\ log' = log \o <<Error("Error writing Excel file", "output_file"),
                                          Error("exception", "")>>
             /\ requestStatus' = StatusAfterWrite(requestStatus, outcome = "ok")
    /\ pc' = "post"
    /\ UNCHANGED <<configFailed, excel_file, command, split_column, dirCreated,
                   loaded, columns, table, df, agent_names, idx, splitRan,
                   summary>>
    /\ UNCHANGED isfile
    /\ UNCHANGED sanVars
    /\ UNCHANGED widthVars

\* the rest of the pass, outside the try/except: load_workbook of the
\* output file, column widths, header fill, save.  load_workbook raises when
\* the file is not there, save may raise; neither is caught
PostProcess ==
    /\ pc = "post"
    /\ LET f == output_file(excel_file, agent_names[idx])
       IN IF f \notin DOMAIN written
          THEN /\ pc' = "crashed"
               /\ idx' = idx
          ELSE \E saveOK \in BOOLEAN :
                  IF saveOK
                  THEN /\ idx' = idx + 1
                       /\ pc' = IF idx + 1 > Len(agent_names) THEN "summary" ELSE "write"
                  ELSE /\ pc' = "crashed"
                       /\ idx' = idx
    /\ UNCHANGED <<requestStatus, configFailed, excel_file, command,
                   split_column, log, dirCreated, loaded, columns, table, df,
                   agent_names, written, partitions, splitRan, summary>>
    /\ UNCHANGED isfile
    /\ UNCHANGED sanVars
    /\ UNCHANGED widthVars

Next ==
    \/ ConfigLoad
    \/ ProcessParameters
    \/ ParametersExit
    \/ MainDispatch
    \/ SplitFileMissing
    \/ SplitOpenError
    \/ SplitMkdirError
    \/ SplitReadError
    \/ SplitLoad
    \/ WritePartition
    \/ PostProcess
    \/ Summary

Spec == Init /\ [][Next]_vars

(* ------------------- the sanitisation, on its own ---------------------- *)
Strings == UNION {[1..n -> Alphabet] : n \in 0..MaxStrLen}

SanInit ==
    /\ RunInit
    /\ san_in \in Strings
    /\ san_out = <<>>
    /\ san_out2 = <<>>
    /\ san_pc = "start"
    /\ WidthIdle

\* the sanitisation applied to a value
SanApply ==
    /\ san_pc = "start"
    /\ san_out' = Sanitize(san_in)
    /\ san_pc' = "once"
    /\ UNCHANGED <<san_in, san_out2>>
    /\ UNCHANGED runVars
    /\ UNCHANGED widthVars

\* the sanitisation applied to its own result
SanApplyAgain ==
    /\ san_pc = "once"
    /\ san_out2' = Sanitize(san_out)
    /\ san_pc' = "twice"
    /\ UNCHANGED <<san_in, san_out>>
    /\ UNCHANGED runVars
    /\ UNCHANGED widthVars

SanNext == SanApply \/ SanApplyAgain

SanSpec == SanInit /\ [][SanNext]_vars

(* ------------------ the column widths, on their own -------------------- *)
\* the value of a cell of the reloaded sheet: nothing, an integer, a
\* boolean or a string
NoneCell == [t |-> "none", n |-> 0, b |-> FALSE, s |-> <<>>]
IntCell(n) == [t |-> "int", n |-> n, b |-> FALSE, s |-> <<>>]
BoolCell(b) == [t |-> "bool", n |-> 0, b |-> b, s |-> <<>>]
StrCell(s) == [t |-> "str", n |-> 0, b |-> FALSE, s |-> s]

\* 'if cell.value:' is the truth value of the cell's value: None, 0, False
\* and the empty string are false
Truthy(c) == CASE c.t = "none" -> FALSE
               [] c.t = "int" -> c.n # 0
               [] c.t = "bool" -> c.b
               [] c.t = "str" -> c.s # <<>>

\* the number of characters of the decimal form of an integer
RECURSIVE IntStrLen(_)
IntStrLen(n) == IF n < 0 THEN 1 + IntStrLen(0 - n)
                ELSE IF n < 10 THEN 1
                ELSE 1 + IntStrLen(n \div 10)

\* len(str(cell.value)): None, True and False print as their names
CellStrLen(c) == CASE c.t = "none" -> 4
                   [] c.t = "int" -> IntStrLen(c.n)
                   [] c.t = "bool" -> IF c.b THEN 4 ELSE 5
                   [] c.t = "str" -> Len(c.s)

Max(a, b) == IF a >= b THEN a ELSE b

\* the inner loop over the cells of a column, from max_length = 0
RECURSIVE max_length(_)
max_length(col) ==
    IF col = <<>> THEN 0
    ELSE LET m == max_length(SubSeq(col, 1, Len(col) - 1))
             c == col[Len(col)]
         IN IF Truthy(c) THEN Max(m, CellStrLen(c)) ELSE m

\* adjusted_width = max_length + 2
adjusted_width(col) == max_length(col) + 2

HeaderCells == {StrCell(<<"O", "K">>), StrCell(<<"A", "m", "o", "u", "n", "t">>)}
DataCells == {NoneCell, IntCell(0), IntCell(120), BoolCell(FALSE),
              StrCell(<<"a", "b", "c">>)}
\* a column of the output sheet: the header cell, then the data cells
Columns == {<<h>> \o d : h \in HeaderCells,
                         d \in UNION {[1..n -> DataCells] : n \in 0..MaxCells}}
Sheets == UNION {[1..n -> Columns] : n \in 1..2}

WidthInit ==
    /\ RunInit
    /\ SanIdle
    /\ w_sheet \in Sheets
    /\ w_col = 1
    /\ w_width = <<>>
    /\ w_pc = "columns"

\* one pass of 'for col in sheet.columns': the width of one column is set
WidthColumn ==
    /\ w_pc = "columns"
    /\ w_col <= Len(w_sheet)
    /\ w_width' = Append(w_width, adjusted_width(w_sheet[w_col]))
    /\ w_col' = w_col + 1
    /\ UNCHANGED <<w_sheet, w_pc>>
    /\ UNCHANGED runVars
    /\ UNCHANGED sanVars

\* the loop over the columns ends
WidthDone ==
    /\ w_pc = "columns"
    /\ w_col > Len(w_sheet)
    /\ w_pc' = "done"
    /\ UNCHANGED <<w_sheet, w_col, w_width>>
    /\ UNCHANGED runVars
    /\ UNCHANGED sanVars

WidthNext == WidthColumn \/ WidthDone

WidthSpec == WidthInit /\ [][WidthNext]_vars

(* ============================== claims ================================= *)
Range(s) == {s[i] : i \in 1..Len(s)}

ColumnPresent == \E i \in 1..Len(columns) : columns[i] = split_column

\* positions of the partitions whose write raised
FailedWrites == {i \in 1..Len(partitions) : ~partitions[i].ok}

\* error entries of the log other than the two of the final summary
RunErrors == {i \in 1..Len(log) :
                 /\ log[i].level = "ERROR"
                 /\ log[i].msg \notin {"Script encountered errors",
                                       "One or more tasks failed"}}

\* the position of row r in the sorted frame
PosIn(frame, r) == CHOOSE i \in 1..Len(frame) : frame[i] = r

\* C1: when split_sheet runs to completion with no write failure, every
\* row of the table is in the output of exactly one partition, rows with a
\* missing split value included.
C1_EveryRowInOnePartition ==
    (pc = "done" /\ loaded /\ ColumnPresent /\ FailedWrites = {})
        => \A r \in 1..Len(table) :
              Cardinality({i \in 1..Len(partitions) :
                              \E k \in 1..Len(partitions[i].rows) :
                                  partitions[i].rows[k] = r}) = 1

\* C2: when the write of one partition fails, the status is failed and
\* every remaining distinct value is still attempted: a run that has ended
\* with a failed write has attempted all distinct values.
C2_LoopContinuesAfterWriteFailure ==
    (pc \in {"done", "crashed"} /\ FailedWrites # {})
        => /\ requestStatus = FALSE
           /\ Len(partitions) = Len(agent_names)

\* C3: the sanitised name has only characters of [A-Za-z0-9_], no two
\* consecutive underscores, and no underscore at either end.
C3_CleanNameWellFormed ==
    san_pc \in {"once", "twice"}
        => /\ \A i \in 1..Len(san_out) : san_out[i] \in {"a", "b", "_"}
           /\ \A i \in 1..(Len(san_out) - 1) :
                 ~(san_out[i] = "_" /\ san_out[i + 1] = "_")
           /\ san_out # <<>> => (san_out[1] # "_" /\ san_out[Len(san_out)] # "_")

\* C4: the sanitisation is idempotent: applied to its own result it gives
\* the same string.
C4_SanitizeIdempotent ==
    san_pc = "twice" => san_out2 = san_out

\* C5: when the split column is not among the columns of the loaded sheet,
\* split_sheet sets the status to failed and returns with no partition
\* produced and no output file written.
C5_MissingColumnWritesNothing ==
    (loaded /\ ~ColumnPresent)
        => /\ requestStatus = FALSE
           /\ pc \in {"summary", "done"}
           /\ agent_names = <<>>
           /\ partitions = <<>>
           /\ DOMAIN written = {}

C5_Witness ==
    /\ pc = "done" /\ loaded /\ ~ColumnPresent
    /\ dirCreated /\ Len(table) >= 2 /\ summary = "failed"

\* C6: the run status is monotone: once failed it is never set back to
\* success, and the final summary reports failure whenever an error of
\* configuration, validation, read or write has been logged.
C6_StatusMonotone ==
    [][/\ (requestStatus = FALSE => requestStatus' = FALSE)
       /\ ((summary' # "none" /\ RunErrors' # {}) => summary' = "failed")]_vars

C6_Witness ==
    /\ pc = "done" /\ summary = "failed"
    /\ Len(partitions) >= 2
    /\ ~partitions[1].ok /\ partitions[2].ok

\* C7 as stated: after a configuration failure the split operation is
\* still executed.
C7_SplitAttemptedAfterConfigFailure ==
    (configFailed /\ pc = "done") => splitRan

\* C7 amended: after a configuration failure the status is failed and the
\* error is logged, the parameters are still parsed, but split_sheet is not
\* executed: the run goes from the dispatch to the failure summary.
C7_ConfigFailureSkipsSplit ==
    configFailed
        => /\ requestStatus = FALSE
           /\ RunErrors # {}
           /\ ~splitRan
           /\ pc \in {"params", "main", "summary", "done", "exited"}
           /\ pc \in {"main", "summary", "done"} => command = "split"
           /\ pc = "done" => summary = "failed"

C7_Witness ==
    /\ configFailed /\ pc = "done" /\ command = "split"
    /\ excel_file \in ExcelFiles /\ ~splitRan

C9_MissingSourceOneError ==
    isfile = "no"
        => /\ requestStatus = FALSE
           /\ pc \in {"summary", "done"}
           /\ ~dirCreated
           /\ ~loaded
           /\ partitions = <<>>
           /\ DOMAIN written = {}
           /\ Cardinality({i \in 1..Len(log) :
                              log[i].level = "ERROR" /\ log[i].ref = excel_file}) = 1

C9_Witness ==
    /\ isfile = "no" /\ pc = "done" /\ summary = "failed" /\ ~configFailed

\* C10: when the sheet has the split column and no data row, split_sheet
\* produces no partition and no output file, logs no error and leaves the
\* status successful.
C10_EmptyTableNoOutput ==
    (loaded /\ ColumnPresent /\ table = <<>>)
        => /\ agent_names = <<>>
           /\ partitions = <<>>
           /\ DOMAIN written = {}
           /\ pc \in {"summary", "done"}
           /\ requestStatus = TRUE
           /\ RunErrors = {}
           /\ pc = "done" => summary = "success"

C10_Witness ==
    /\ loaded /\ ColumnPresent /\ table = <<>>
    /\ pc = "done" /\ summary = "success" /\ dirCreated

\* the largest textual length over the cells of a column that hold a value
RECURSIVE LongestValue(_)
LongestValue(col) ==
    IF col = <<>> THEN 0
    ELSE LET m == LongestValue(Tail(col))
             l == CASE col[1].t = "int" -> IntStrLen(col[1].n)
                    [] col[1].t = "bool" -> IF col[1].b THEN 4 ELSE 5
                    [] col[1].t = "str" -> Len(col[1].s)
                    [] OTHER -> 0
         IN IF col[1].t # "none" /\ l > m THEN l ELSE m

\* C11: the width of every column of an output sheet is M + 2, where M is
\* the largest len(str(value)) over the cells of the column that hold a
\* value, the header included; a cell holding 0 or False holds a value.
C11_WidthIsLongestValuePlusTwo ==
    \A c \in 1..Len(w_width) : w_width[c] = LongestValue(w_sheet[c]) + 2

====
